---- MODULE Spec2Model ----
(***************************************************************************)
(* Model of the auction bidding engine of app.py: the in-memory lot        *)
(* (current_auction), the sequential queue (sequential_auction), the       *)
(* player records of players.csv, the live version counter and the         *)
(* request handlers that change them.  Money is counted in units of the    *)
(* smallest increment.  Python's None player_id is 0.                      *)
(***************************************************************************)
EXTENDS Integers, Sequences, FiniteSets, TLC

\* ---------------------------------------------------------------- bounds
NumPlayers == 2
MaxVersion == 3
MaxAmount == 5
\* capacity of a viewer's queue (queue.Queue(maxsize=100) in _subscribe_sse)
MaxMailbox == 2

\* ------------------------------------------------------ program constants
LadderLen == 10
ManualMaxSquad == 9
ManualMinSquad == 8
\* compute_team_limits: for _ in range(200)
WalkLen == 200

Players == 1..NumPlayers
NoPlayer == 0
TEAMS == <<"A", "B">>
TeamNames == {TEAMS[i] : i \in 1..Len(TEAMS)}
TeamInputs == TeamNames \cup {""}
Amounts == 0..MaxAmount
\* amounts carried by the two concurrent bid requests
RetryAmounts == 1..2
\* prices entered in the manual sale form: a base price, and the largest price
\* the reserve of lines 482-486 leaves a team with an untouched budget of 12
ManualPrices == {1, 5}

\* config.json as read by load_config; the module globals TEAM_BUDGET and
\* BASE_PRICE are set from the same file and change only together with it.
Configs ==
  { [budget |-> 12, base_price |-> 1, increments |-> <<1, 2, 3>>, max_players |-> 9],
    [budget |-> 8,  base_price |-> 2, increments |-> <<1, 2, 3>>, max_players |-> 2] }

\* base_price column of players.csv
PlayerBasePrice(p) == IF p % 2 = 0 THEN 2 ELSE 1

VARIABLES config, players, current_auction, sequential_auction,
          auction_version, last, req, sse_clients, stream

vars == <<config, players, current_auction, sequential_auction,
          auction_version, last, req, sse_clients, stream>>

TEAM_BUDGET == config.budget
BASE_PRICE == config.base_price

\* ------------------------------------------------------------ pure helpers
Max2(a, b) == IF a >= b THEN a ELSE b

\* sum of sold_price over the rows 1..n of the table that belong to team
RECURSIVE SumPrices(_, _, _)
SumPrices(df, team, n) ==
  IF n = 0 THEN 0
  ELSE (IF df[n].team = team THEN df[n].sold_price ELSE 0) + SumPrices(df, team, n - 1)

next_step(cfg, val) ==
  IF val < cfg.base_price * 2 THEN val + cfg.increments[1]
  ELSE IF val < cfg.base_price * 4 THEN val + cfg.increments[2]
  ELSE val + cfg.increments[3]

RECURSIVE Ladder(_, _, _)
Ladder(cfg, current, n) ==
  IF n = 0 THEN <<>>
  ELSE <<current>> \o Ladder(cfg, next_step(cfg, current), n - 1)

\* variant: the tier is chosen once, from the starting price
get_bid_increments_start_tier(cfg, current_bid) ==
  [i \in 1..LadderLen |-> current_bid + (i - 1) * (next_step(cfg, current_bid) - current_bid)]

get_bid_increments(cfg, current_bid) == Ladder(cfg, current_bid, LadderLen)

SeqToSet(s) == {s[i] : i \in 1..Len(s)}

\* values of a ladder strictly above v, in ladder order
Above(s, v) == SelectSeq(s, LAMBDA p : p > v)

\* ---- per-team aggregates read from the player table
TeamRows(df, team) == {p \in Players : df[p].team = team}
Spent(df, team) == SumPrices(df, team, NumPlayers)
SoldCount(df, team) == Cardinality({p \in TeamRows(df, team) : df[p].status = "sold"})
CaptainCount(df, team) == Cardinality({p \in TeamRows(df, team) : df[p].status = "captain"})
Headcount(df, team) == SoldCount(df, team) + CaptainCount(df, team)
Remaining(cfg, df, team) == cfg.budget - Spent(df, team)

\* variant: the result is not clipped at 0
max_bid_unclipped(cfg, df, team) ==
  IF Headcount(df, team) >= cfg.max_players THEN 0
  ELSE LET reserve_slots == Max2(0, cfg.max_players - CaptainCount(df, team) - SoldCount(df, team) - 1)
       IN Remaining(cfg, df, team) - reserve_slots * cfg.base_price

\* variant: a full squad is not tested
max_bid_open_squad(cfg, df, team) ==
  LET reserve_slots == Max2(0, cfg.max_players - CaptainCount(df, team) - SoldCount(df, team) - 1)
  IN Max2(0, Remaining(cfg, df, team) - reserve_slots * cfg.base_price)

\* compute_team_limits(...)[team]["max_bid"]
max_bid(cfg, df, team) ==
  IF Headcount(df, team) >= cfg.max_players THEN 0
  ELSE LET reserve_slots == Max2(0, cfg.max_players - CaptainCount(df, team) - SoldCount(df, team) - 1)
       IN Max2(0, Remaining(cfg, df, team) - reserve_slots * cfg.base_price)

\* compute_team_limits, lines 240-251: the next required bid (0 stands for None)
min_next_bid(cfg, pid, current_bid, current_team) ==
  IF current_bid <= PlayerBasePrice(pid) /\ current_team = ""
  THEN PlayerBasePrice(pid)
  ELSE LET next_prices == Above(get_bid_increments(cfg, current_bid), current_bid)
       IN IF Len(next_prices) > 0 THEN next_prices[1] ELSE 0

UnsoldIds(df) == SelectSeq([i \in 1..NumPlayers |-> i], LAMBDA p : df[p].status = "unsold")

compute_starting_team ==
  IF sequential_auction.active /\ Len(TEAMS) > 0
  THEN TEAMS[(sequential_auction.current_index % Len(TEAMS)) + 1]
  ELSE ""

\* ------------------------------------------------------------------ state
UnsoldRecord == [team |-> "", status |-> "unsold", sold_price |-> 0, sold_at |-> ""]
WaitingLot == [player_id |-> NoPlayer, current_bid |-> 0, current_team |-> "", status |-> "waiting"]
StartedLot(pid, bid) == [player_id |-> pid, current_bid |-> bid, current_team |-> "", status |-> "bidding"]

\* The outcome of the latest request: the operation and its arguments when it
\* was accepted; a request that was turned down answers with an error page.
Resp(op, pid, team, amount) ==
  [op |-> op, ok |-> TRUE, changed |-> TRUE, pid |-> pid, team |-> team, amount |-> amount]
Rejected(op) ==
  [op |-> op, ok |-> FALSE, changed |-> FALSE, pid |-> NoPlayer, team |-> "", amount |-> 0]
\* turned down after the handler had already written to the state
RejectedMidway(op) == [Rejected(op) EXCEPT !.changed = TRUE]

\* ---- a request worker handling one update_bid request step by step
Workers == {"w1", "w2"}
IdleReq == [pc |-> "idle", pid |-> NoPlayer, team |-> "", new_bid |-> 0,
            bid_val |-> 0, team_val |-> "", seen |-> 0, ok |-> FALSE,
            reg |-> 0, msg |-> 0, df |-> <<>>]

\* ---- viewers of /events.  sse_clients maps each registered viewer to its
\* queue; a queued state message is represented by the version it carries.
\* stream[s] is the version of the last state message written to the
\* viewer's response, NoVersion before the first one.
Subscribers == {"s1", "s2"}
NoVersion == -1

Init ==
  /\ config \in Configs
  /\ players = [p \in Players |-> UnsoldRecord]
  /\ current_auction = WaitingLot
  /\ sequential_auction = [active |-> FALSE, current_index |-> 0, player_sequence |-> <<>>]
  /\ auction_version = 0
  /\ last = Rejected("none")
  /\ req = [w \in Workers |-> IdleReq]
  /\ sse_clients = [s \in {} |-> <<>>]
  /\ stream = [s \in Subscribers |-> NoVersion]

\* broadcast_state: the version counter is incremented once per call
Broadcast(v, n) == v + n

\* q.put_nowait(message) inside try/except: a full queue raises queue.Full,
\* which is swallowed, and the message is not queued
put_nowait(q, message) == IF Len(q) < MaxMailbox THEN Append(q, message) ELSE q

\* variant: queue.Full is not caught; the loop stops and no viewer is served
fan_out_unguarded(clients, message) ==
  IF \E s \in DOMAIN clients : Len(clients[s]) >= MaxMailbox
  THEN clients
  ELSE [s \in DOMAIN clients |-> Append(clients[s], message)]

\* broadcast_state, lines 130-135: the loop over the registered queues
fan_out(clients, message) ==
  [s \in DOMAIN clients |-> put_nowait(clients[s], message)]

\* the queues after the broadcasts that took the counter from v to v2
RECURSIVE Delivered(_, _, _)
Delivered(clients, v, v2) ==
  IF v >= v2 THEN clients
  ELSE Delivered(fan_out(clients, v + 1), v + 1, v2)

\* Requests are explored while the counter is below MaxVersion.  No handler
\* reads last, so a request that was turned down without writing anything
\* leaves the program exactly where it was: what can follow it is what could
\* follow the state before it, and exploration goes on from that state only.
Below ==
  /\ auction_version < MaxVersion
  /\ last.changed \/ last.op = "none"

\* live_bidding, action == "start_bidding"
StartLot(pid) ==
  /\ Below
  /\ current_auction' = StartedLot(pid, PlayerBasePrice(pid))
  /\ auction_version' = Broadcast(auction_version, 1)
  /\ last' = Resp("startLot", pid, "", PlayerBasePrice(pid))
  /\ UNCHANGED <<config, players, sequential_auction, req, stream>>
  /\ sse_clients' = Delivered(sse_clients, auction_version, auction_version')

\* ---- live_bidding, action == "update_bid": the checks in source order
\* lines 605-614: outbid the leader, or at least the shown price
OutbidCheck(lot, new_bid) ==
  IF lot.current_team # "" THEN new_bid > lot.current_bid
  ELSE new_bid >= lot.current_bid

\* variant: compares with the remaining budget and forgets the reserve
AffordCheckNoReserve(cfg, df, team, new_bid) == new_bid <= Remaining(cfg, df, team)

\* line 616
AffordCheck(cfg, df, team, new_bid) == new_bid <= max_bid(cfg, df, team)

\* variant: any amount above the current bid passes, on the ladder or not
valid_next_any(cfg, lot, pid) ==
  {a \in Amounts : a > lot.current_bid}
    \cup (IF lot.current_team = "" /\ lot.current_bid >= PlayerBasePrice(pid)
          THEN {lot.current_bid} ELSE {})

\* lines 621-624: the amounts the increment validation lets through
valid_next(cfg, lot, pid) ==
  SeqToSet(Above(get_bid_increments(cfg, lot.current_bid), lot.current_bid))
    \cup (IF lot.current_team = "" /\ lot.current_bid >= PlayerBasePrice(pid)
          THEN {lot.current_bid} ELSE {})

BidAccepted(cfg, df, lot, pid, team, new_bid) ==
  /\ team # ""
  /\ team \in TeamNames
  /\ OutbidCheck(lot, new_bid)
  /\ AffordCheck(cfg, df, team, new_bid)
  /\ new_bid \in valid_next(cfg, lot, pid)

AppliedBid(lot, team, new_bid) ==
  [lot EXCEPT !.current_bid = new_bid, !.current_team = team, !.status = "bidding"]

PlaceBid(pid, team, new_bid) ==
  /\ Below
  /\ IF BidAccepted(config, players, current_auction, pid, team, new_bid)
     THEN /\ current_auction' = AppliedBid(current_auction, team, new_bid)
          /\ auction_version' = Broadcast(auction_version, 1)
          /\ last' = Resp("placeBid", pid, team, new_bid)
     ELSE /\ last' = Rejected("placeBid")
          /\ UNCHANGED <<current_auction, auction_version>>
  /\ UNCHANGED <<config, players, sequential_auction, req, stream>>
  /\ sse_clients' = Delivered(sse_clients, auction_version, auction_version')

\* ---- sequential advance: the same code in live_bidding (sold) and next_player
\* lines 671-701 / 860-891, applied to the lot as it is when the advance starts
\* variant: the queue ends with its first round, unsold players or not
AdvanceSeqOneRound(cfg, df, seq, lot) ==
  LET idx == seq.current_index + 1
  IN IF idx >= Len(seq.player_sequence)
     THEN [seq |-> [seq EXCEPT !.active = FALSE, !.current_index = idx],
           lot |-> [lot EXCEPT !.player_id = NoPlayer, !.status = "waiting"]]
     ELSE [seq |-> [seq EXCEPT !.current_index = idx],
           lot |-> StartedLot(seq.player_sequence[idx + 1], cfg.base_price)]

\* variant: at the end of a round the queue is refilled with every player
AdvanceSeqAllPlayers(cfg, df, seq, lot) ==
  LET idx == seq.current_index + 1
      everyone == [i \in 1..NumPlayers |-> i]
  IN IF idx >= Len(seq.player_sequence)
     THEN IF Len(UnsoldIds(df)) > 0
          THEN [seq |-> [active |-> seq.active, current_index |-> 0, player_sequence |-> everyone],
                lot |-> StartedLot(everyone[1], cfg.base_price)]
          ELSE [seq |-> [seq EXCEPT !.active = FALSE, !.current_index = idx],
                lot |-> [lot EXCEPT !.player_id = NoPlayer, !.status = "waiting"]]
     ELSE [seq |-> [seq EXCEPT !.current_index = idx],
           lot |-> StartedLot(seq.player_sequence[idx + 1], cfg.base_price)]

AdvanceSeq(cfg, df, seq, lot) ==
  LET idx == seq.current_index + 1
      unsold == UnsoldIds(df)
  IN IF idx >= Len(seq.player_sequence)
     THEN IF Len(unsold) > 0
          THEN [seq |-> [active |-> seq.active, current_index |-> 0, player_sequence |-> unsold],
                lot |-> StartedLot(unsold[1], cfg.base_price)]
          ELSE [seq |-> [seq EXCEPT !.active = FALSE, !.current_index = idx],
                lot |-> [lot EXCEPT !.player_id = NoPlayer, !.status = "waiting"]]
     ELSE [seq |-> [seq EXCEPT !.current_index = idx],
           lot |-> StartedLot(seq.player_sequence[idx + 1], cfg.base_price)]

\* ---- live_bidding, action == "sold"
\* variant: the form's team replaces the leading team whenever it is given
NoBidFallbackFormTeam(lot, pid, form_team) ==
  IF lot.current_bid = 0
  THEN [lot EXCEPT !.current_bid = PlayerBasePrice(pid), !.current_team = form_team]
  ELSE IF form_team # "" THEN [lot EXCEPT !.current_team = form_team] ELSE lot

\* variant: the fallback also fires when the lot has a price but no leading team
NoBidFallbackNoLeader(lot, pid, form_team) ==
  IF lot.current_bid = 0 \/ lot.current_team = ""
  THEN [lot EXCEPT !.current_bid = PlayerBasePrice(pid), !.current_team = form_team]
  ELSE lot

\* lines 637-639: with no bid on the lot, sell at base price to the form's team
NoBidFallback(lot, pid, form_team) ==
  IF lot.current_bid = 0
  THEN [lot EXCEPT !.current_bid = PlayerBasePrice(pid), !.current_team = form_team]
  ELSE lot

\* variant: the sale is not re-validated against the team's limit
SaleAcceptedNoRecheck(cfg, df, lot) ==
  /\ lot.current_team # ""
  /\ lot.current_team \in TeamNames

\* lines 641-650
SaleAccepted(cfg, df, lot) ==
  /\ lot.current_team # ""
  /\ lot.current_team \in TeamNames
  /\ lot.current_bid <= max_bid(cfg, df, lot.current_team)

\* variant: the price column is not written
SoldRecordUnpriced(team, price) == [team |-> team, status |-> "sold", sold_price |-> 0, sold_at |-> "t"]

\* lines 654-657 (and 498-501 in the manual sale)
SoldRecord(team, price) == [team |-> team, status |-> "sold", sold_price |-> price, sold_at |-> "t"]

MarkSold(pid, form_team) ==
  /\ Below
  /\ LET lot1 == NoBidFallback(current_auction, pid, form_team)
     IN IF SaleAccepted(config, players, lot1)
        THEN LET df1 == [players EXCEPT ![pid] = SoldRecord(lot1.current_team, lot1.current_bid)]
                 adv == AdvanceSeq(config, df1, sequential_auction, WaitingLot)
             IN /\ players' = df1
                /\ last' = Resp("markSold", pid, lot1.current_team, lot1.current_bid)
                /\ IF sequential_auction.active
                   THEN /\ sequential_auction' = adv.seq
                        /\ current_auction' = adv.lot
                        /\ auction_version' = Broadcast(auction_version, 2)
                   ELSE /\ current_auction' = WaitingLot
                        /\ auction_version' = Broadcast(auction_version, 1)
                        /\ UNCHANGED sequential_auction
        ELSE /\ current_auction' = lot1
             /\ last' = IF lot1 = current_auction THEN Rejected("markSold")
                        ELSE RejectedMidway("markSold")
             /\ UNCHANGED <<players, sequential_auction, auction_version>>
  /\ UNCHANGED <<config, req, stream>>
  /\ sse_clients' = Delivered(sse_clients, auction_version, auction_version')

\* ---- auction, action == "sell" (manual sale form)
ManualMaxAllowed(cfg, df, team) ==
  LET current_players == Headcount(df, team)
      min_needed == Max2(0, ManualMinSquad - (current_players + 1))
  IN (cfg.budget - Spent(df, team)) - min_needed * cfg.base_price

\* variant: the manual sale skips both budget comparisons
ManualAcceptedNoBudget(cfg, df, pid, team, sold_price) ==
  /\ df[pid].status # "sold"
  /\ Headcount(df, team) < ManualMaxSquad

ManualAccepted(cfg, df, pid, team, sold_price) ==
  /\ df[pid].status # "sold"
  /\ Headcount(df, team) < ManualMaxSquad
  /\ ~(Spent(df, team) + sold_price > cfg.budget)
  /\ ~(sold_price > ManualMaxAllowed(cfg, df, team))

ManualSell(pid, team, sold_price) ==
  /\ Below
  /\ IF ManualAccepted(config, players, pid, team, sold_price)
     THEN /\ players' = [players EXCEPT ![pid] = SoldRecord(team, sold_price)]
          /\ auction_version' = Broadcast(auction_version, 1)
          /\ last' = Resp("manualSell", pid, team, sold_price)
     ELSE /\ last' = Rejected("manualSell")
          /\ UNCHANGED <<players, auction_version>>
  /\ UNCHANGED <<config, current_auction, sequential_auction, req, stream>>
  /\ sse_clients' = Delivered(sse_clients, auction_version, auction_version')

\* auction, action == "revert"
RevertSale(pid) ==
  /\ Below
  /\ players' = [players EXCEPT ![pid] = UnsoldRecord]
  /\ auction_version' = Broadcast(auction_version, 1)
  /\ last' = Resp("revertSale", pid, "", 0)
  /\ UNCHANGED <<config, current_auction, sequential_auction, req, stream>>
  /\ sse_clients' = Delivered(sse_clients, auction_version, auction_version')

\* set_captain
CaptainRecord(team) == [team |-> team, status |-> "captain", sold_price |-> 0, sold_at |-> ""]

SetCaptain(pid, team) ==
  /\ Below
  /\ IF CaptainCount(players, team) > 0
     THEN /\ last' = Rejected("setCaptain")
          /\ UNCHANGED <<players, auction_version>>
     ELSE /\ players' = [players EXCEPT ![pid] = CaptainRecord(team)]
          /\ auction_version' = Broadcast(auction_version, 1)
          /\ last' = Resp("setCaptain", pid, team, 0)
  /\ UNCHANGED <<config, current_auction, sequential_auction, req, stream>>
  /\ sse_clients' = Delivered(sse_clients, auction_version, auction_version')

\* ---- start_sequential
\* custom_order after the names are resolved to ids (unresolved names are
\* dropped): no name resolved, one player, two players in reverse order
CustomOrders == {<<>>, <<2>>, <<2, 1>>}

\* variant: the emptiness check of lines 757-759 is missing
NoUnsoldUnchecked(df) == FALSE

\* start_sequential, lines 757-759: unsold_players.empty
NoUnsold(df) == Len(UnsoldIds(df)) = 0

StartSequential(use_custom, custom) ==
  /\ Below
  /\ IF NoUnsold(players)
     THEN /\ last' = Rejected("startSequential")
          /\ UNCHANGED <<sequential_auction, current_auction, auction_version>>
     ELSE LET player_sequence == IF use_custom THEN custom ELSE UnsoldIds(players)
          IN /\ sequential_auction' =
                  [active |-> TRUE, current_index |-> 0, player_sequence |-> player_sequence]
             /\ IF Len(player_sequence) = 0
                THEN \* player_sequence[0] raises IndexError: the request ends here
                     /\ last' = RejectedMidway("startSequential")
                     /\ UNCHANGED <<current_auction, auction_version>>
                ELSE /\ current_auction' = StartedLot(player_sequence[1], config.base_price)
                     /\ auction_version' = Broadcast(auction_version, 2)
                     /\ last' = Resp("startSequential", player_sequence[1], "", config.base_price)
  /\ UNCHANGED <<config, players, req, stream>>
  /\ sse_clients' = Delivered(sse_clients, auction_version, auction_version')

\* next_player
NextPlayer ==
  /\ Below
  /\ IF ~sequential_auction.active
     THEN /\ last' = Rejected("advance")
          /\ UNCHANGED <<sequential_auction, current_auction, auction_version>>
     ELSE LET adv == AdvanceSeq(config, players, sequential_auction, current_auction)
          IN /\ sequential_auction' = adv.seq
             /\ current_auction' = adv.lot
             /\ auction_version' = Broadcast(auction_version, 1)
             /\ last' = Resp("advance", adv.lot.player_id, "", adv.lot.current_bid)
  /\ UNCHANGED <<config, players, req, stream>>
  /\ sse_clients' = Delivered(sse_clients, auction_version, auction_version')

\* ---- live_bidding, action == "update_bid", as a request thread runs it:
\* nothing guards current_auction, so the reads of lines 603-604 and the
\* writes of lines 630-632 of two requests interleave freely.
\* lines 570-601: load the table, parse the form, look the team up
BidBegin(w, pid, team, new_bid) ==
  /\ req[w].pc = "idle"
  /\ req' = [req EXCEPT ![w] =
       IF team = "" \/ team \notin TeamNames
       THEN [IdleReq EXCEPT !.pc = "done", !.pid = pid, !.team = team, !.new_bid = new_bid]
       ELSE [IdleReq EXCEPT !.pc = "read_bid", !.pid = pid, !.team = team, !.new_bid = new_bid]]
  /\ UNCHANGED <<config, players, current_auction, sequential_auction, auction_version, last,
               sse_clients, stream>>

\* line 603; seen notes the version the lot had when the request looked at it
BidReadBid(w) ==
  /\ req[w].pc = "read_bid"
  /\ req' = [req EXCEPT ![w].bid_val = current_auction.current_bid,
                        ![w].seen = auction_version,
                        ![w].pc = "read_team"]
  /\ UNCHANGED <<config, players, current_auction, sequential_auction, auction_version, last,
               sse_clients, stream>>

\* line 604, then the checks of lines 605-627 on the values just read
BidReadTeam(w) ==
  /\ req[w].pc = "read_team"
  /\ LET r == req[w]
         seen_lot == [current_bid |-> r.bid_val, current_team |-> current_auction.current_team]
     IN req' = [req EXCEPT ![w].team_val = current_auction.current_team,
                           ![w].pc = IF BidAccepted(config, players, seen_lot, r.pid, r.team, r.new_bid)
                                     THEN "write_bid" ELSE "done"]
  /\ UNCHANGED <<config, players, current_auction, sequential_auction, auction_version, last,
               sse_clients, stream>>

\* line 630
BidWriteBid(w) ==
  /\ req[w].pc = "write_bid"
  /\ current_auction' = [current_auction EXCEPT !.current_bid = req[w].new_bid]
  /\ req' = [req EXCEPT ![w].pc = "write_team"]
  /\ UNCHANGED <<config, players, sequential_auction, auction_version, last, sse_clients, stream>>

\* line 631
BidWriteTeam(w) ==
  /\ req[w].pc = "write_team"
  /\ current_auction' = [current_auction EXCEPT !.current_team = req[w].team]
  /\ req' = [req EXCEPT ![w].pc = "write_status"]
  /\ UNCHANGED <<config, players, sequential_auction, auction_version, last, sse_clients, stream>>

\* lines 632-633
BidFinish(w) ==
  /\ req[w].pc = "write_status"
  /\ Below
  /\ current_auction' = [current_auction EXCEPT !.status = "bidding"]
  /\ auction_version' = Broadcast(auction_version, 1)
  /\ req' = [req EXCEPT ![w].pc = "done", ![w].ok = TRUE]
  /\ last' = Resp("placeBid", req[w].pid, req[w].team, req[w].new_bid)
  /\ sse_clients' = Delivered(sse_clients, auction_version, auction_version')
  /\ UNCHANGED <<config, players, sequential_auction, stream>>

Next ==
  \/ \E pid \in Players : StartLot(pid)
  \/ \E pid \in Players, team \in TeamNames, new_bid \in Amounts : PlaceBid(pid, team, new_bid)
  \/ \E pid \in Players : PlaceBid(pid, "", PlayerBasePrice(pid))
  \/ \E pid \in Players, form_team \in TeamInputs : MarkSold(pid, form_team)
  \/ \E pid \in Players, team \in TeamNames, sold_price \in ManualPrices : ManualSell(pid, team, sold_price)
  \/ \E pid \in Players : RevertSale(pid)
  \/ \E pid \in Players, team \in TeamNames : SetCaptain(pid, team)
  \/ StartSequential(FALSE, <<>>)
  \/ \E custom \in CustomOrders : StartSequential(TRUE, custom)
  \/ NextPlayer

Spec == Init /\ [][Next]_vars

\* Two update_bid requests served by concurrent request threads on a lot that
\* the administrator has started.
NextConc ==
  \/ \E pid \in Players : StartLot(pid)
  \/ \E w \in Workers, pid \in Players, team \in TeamNames, new_bid \in RetryAmounts :
       BidBegin(w, pid, team, new_bid)
  \/ \E w \in Workers : BidReadBid(w)
  \/ \E w \in Workers : BidReadTeam(w)
  \/ \E w \in Workers : BidWriteBid(w)
  \/ \E w \in Workers : BidWriteTeam(w)
  \/ \E w \in Workers : BidFinish(w)

SpecConc == Init /\ [][NextConc]_vars

\* ---- administrative resets
\* reset_auction: sold rows back to unsold (captains kept), the lot reset, two
\* broadcasts, then the call of bump_auction_version, a name that is defined
\* nowhere: NameError, the request ends with an error response
ResetAuction ==
  /\ Below
  /\ players' = [p \in Players |->
                   IF players[p].status = "sold" THEN UnsoldRecord ELSE players[p]]
  /\ current_auction' = WaitingLot
  /\ auction_version' = Broadcast(auction_version, 2)
  /\ last' = RejectedMidway("resetLot")
  /\ UNCHANGED <<config, sequential_auction, req, stream>>
  /\ sse_clients' = Delivered(sse_clients, auction_version, auction_version')

\* reset_player: the row is saved first; only when the player is the one on the
\* lot is the lot reset and broadcast, followed by the same undefined call
ResetPlayer(pid) ==
  /\ Below
  /\ players' = [players EXCEPT ![pid] = UnsoldRecord]
  /\ IF current_auction.player_id = pid
     THEN /\ current_auction' = WaitingLot
          /\ auction_version' = Broadcast(auction_version, 1)
          /\ last' = RejectedMidway("resetPlayer")
     ELSE /\ last' = Resp("resetPlayer", pid, "", 0)
          /\ UNCHANGED <<current_auction, auction_version>>
  /\ UNCHANGED <<config, sequential_auction, req, stream>>
  /\ sse_clients' = Delivered(sse_clients, auction_version, auction_version')

\* reset_all_players: every row back to unsold; nothing is broadcast
ResetAllPlayers ==
  /\ Below
  /\ players' = [p \in Players |-> UnsoldRecord]
  /\ last' = Resp("resetAllPlayers", NoPlayer, "", 0)
  /\ UNCHANGED <<config, current_auction, sequential_auction, auction_version, req,
                 sse_clients, stream>>

\* reset_captains
ResetCaptains ==
  /\ Below
  /\ players' = [p \in Players |->
                   IF players[p].status = "captain" THEN UnsoldRecord ELSE players[p]]
  /\ auction_version' = Broadcast(auction_version, 1)
  /\ last' = Resp("resetCaptains", NoPlayer, "", 0)
  /\ UNCHANGED <<config, current_auction, sequential_auction, req, stream>>
  /\ sse_clients' = Delivered(sse_clients, auction_version, auction_version')

\* what the manual sale form can also carry: no team chosen, a price of 0
UncheckedForms == (TeamInputs \X ({0} \cup ManualPrices)) \ (TeamNames \X ManualPrices)

\* The administrator's pages: every request of Next, the resets, and the manual
\* sale form with the inputs it does not validate.
NextAdmin ==
  \/ Next
  \/ ResetAuction
  \/ \E pid \in Players : ResetPlayer(pid)
  \/ ResetAllPlayers
  \/ ResetCaptains
  \/ \E pid \in Players, form \in UncheckedForms : ManualSell(pid, form[1], form[2])

SpecAdmin == Init /\ [][NextAdmin]_vars

\* ---- the /events stream
\* events, line 1668: q = _subscribe_sse() registers an empty queue
Subscribe(s) ==
  /\ s \notin DOMAIN sse_clients
  /\ sse_clients' = [t \in DOMAIN sse_clients \cup {s} |->
                       IF t = s THEN <<>> ELSE sse_clients[t]]
  /\ stream' = [stream EXCEPT ![s] = NoVersion]
  /\ UNCHANGED <<config, players, current_auction, sequential_auction,
                 auction_version, last, req>>

\* variant: the first message is produced without the queue being registered
InitMessageUnregistered(s) ==
  /\ stream[s] = NoVersion
  /\ stream' = [stream EXCEPT ![s] = auction_version]
  /\ UNCHANGED <<config, players, current_auction, sequential_auction,
                 auction_version, last, req, sse_clients>>

\* gen, lines 1675-1676: the first message carries the version read now
InitMessage(s) ==
  /\ s \in DOMAIN sse_clients
  /\ stream[s] = NoVersion
  /\ stream' = [stream EXCEPT ![s] = auction_version]
  /\ UNCHANGED <<config, players, current_auction, sequential_auction,
                 auction_version, last, req, sse_clients>>

\* gen, lines 1680-1682: q.get returns the oldest queued message, which is
\* written to the response as it is
Receive(s) ==
  /\ s \in DOMAIN sse_clients
  /\ stream[s] # NoVersion
  /\ Len(sse_clients[s]) > 0
  /\ stream' = [stream EXCEPT ![s] = Head(sse_clients[s])]
  /\ sse_clients' = [sse_clients EXCEPT ![s] = Tail(@)]
  /\ UNCHANGED <<config, players, current_auction, sequential_auction,
                 auction_version, last, req>>

\* gen, lines 1686-1689: queue.Empty after the timeout; a comment line is
\* written, no state message, and the loop waits again
Heartbeat(s) ==
  /\ s \in DOMAIN sse_clients
  /\ stream[s] # NoVersion
  /\ Len(sse_clients[s]) = 0
  /\ UNCHANGED vars

\* gen, lines 1690-1694: the viewer went away; finally: _unsubscribe_sse(q)
Unsubscribe(s) ==
  /\ s \in DOMAIN sse_clients
  /\ stream[s] # NoVersion
  /\ sse_clients' = [t \in DOMAIN sse_clients \ {s} |-> sse_clients[t]]
  /\ stream' = [stream EXCEPT ![s] = NoVersion]
  /\ UNCHANGED <<config, players, current_auction, sequential_auction,
                 auction_version, last, req>>

\* The auctioneer opening lots and queues, one request at a time, while
\* viewers come, read and go.
NextHub ==
  \/ \E pid \in Players : StartLot(pid)
  \/ StartSequential(FALSE, <<>>)
  \/ \E s \in Subscribers : Subscribe(s)
  \/ \E s \in Subscribers : InitMessage(s)
  \/ \E s \in Subscribers : Receive(s)
  \/ \E s \in Subscribers : Heartbeat(s)
  \/ \E s \in Subscribers : Unsubscribe(s)

SpecHub == Init /\ [][NextHub]_vars

\* A connected viewer's generator keeps running: a queued message is
\* eventually taken (q.get returns as soon as the queue is not empty) and the
\* first message is eventually written.
SpecHubLive ==
  /\ SpecHub
  /\ \A s \in Subscribers : WF_vars(Receive(s)) /\ WF_vars(InitMessage(s))

\* ---- two start_bidding requests on two threads: broadcast_state step by step
InFlight == Cardinality({w \in Workers : req[w].pc # "idle"})

\* live_bidding, lines 577-580: the lot is written, then broadcast_state() runs
BcBegin(w, pid) ==
  /\ req[w].pc = "idle"
  /\ auction_version + InFlight < MaxVersion
  /\ current_auction' = StartedLot(pid, PlayerBasePrice(pid))
  /\ req' = [req EXCEPT ![w] = [IdleReq EXCEPT !.pc = "bc_load", !.pid = pid]]
  /\ UNCHANGED <<config, players, sequential_auction, auction_version, last,
                 sse_clients, stream>>

\* auction_version += 1, the read of the global
BcLoad(w) ==
  /\ req[w].pc = "bc_load"
  /\ req' = [req EXCEPT ![w].reg = auction_version, ![w].pc = "bc_store"]
  /\ UNCHANGED <<config, players, current_auction, sequential_auction,
                 auction_version, last, sse_clients, stream>>

\* auction_version += 1, the write of the global
BcStore(w) ==
  /\ req[w].pc = "bc_store"
  /\ auction_version' = req[w].reg + 1
  /\ req' = [req EXCEPT ![w].pc = "bc_message"]
  /\ UNCHANGED <<config, players, current_auction, sequential_auction, last,
                 sse_clients, stream>>

\* lines 125-129: the message reads auction_version again
BcMessage(w) ==
  /\ req[w].pc = "bc_message"
  /\ req' = [req EXCEPT ![w].msg = auction_version, ![w].pc = "bc_put"]
  /\ UNCHANGED <<config, players, current_auction, sequential_auction,
                 auction_version, last, sse_clients, stream>>

\* lines 130-135: with _sse_lock, the message is put on every queue
BcPut(w) ==
  /\ req[w].pc = "bc_put"
  /\ sse_clients' = fan_out(sse_clients, req[w].msg)
  /\ last' = Resp("startLot", req[w].pid, "", PlayerBasePrice(req[w].pid))
  /\ req' = [req EXCEPT ![w] = IdleReq]
  /\ UNCHANGED <<config, players, current_auction, sequential_auction,
                 auction_version, stream>>

NextHubConc ==
  \/ \E w \in Workers, pid \in Players : BcBegin(w, pid)
  \/ \E w \in Workers : BcLoad(w)
  \/ \E w \in Workers : BcStore(w)
  \/ \E w \in Workers : BcMessage(w)
  \/ \E w \in Workers : BcPut(w)
  \/ \E s \in Subscribers : Subscribe(s)
  \/ \E s \in Subscribers : InitMessage(s)
  \/ \E s \in Subscribers : Receive(s)

SpecHubConc == Init /\ [][NextHubConc]_vars

\* ---- the bidding page: the price ladder, the next required bid and the
\* per-team limits computed for the player on the lot
\* compute_team_limits, lines 278-302: the highest ladder value that fits
RECURSIVE highest_valid(_, _, _, _, _)
highest_valid(cfg, cand, limit, n, found) ==
  IF n = 0 \/ cand > limit THEN found
  ELSE IF next_step(cfg, cand) = cand THEN cand
  ELSE highest_valid(cfg, next_step(cfg, cand), limit, n - 1, cand)

\* variant: the walk is not made; the first required bid is reported
max_valid_bid_first(cfg, start, limit) ==
  IF start # 0 /\ limit >= start THEN start ELSE 0

max_valid_bid(cfg, start, limit) ==
  IF start # 0 /\ limit >= start
  THEN highest_valid(cfg, start, limit, WalkLen, 0)
  ELSE 0

\* variant: a team with a full squad is still marked able to bid
can_bid_now_any(limit, start) == start # 0

\* compute_team_limits, lines 271-274
can_bid_now(limit, start) == start # 0 /\ limit >= start

\* compute_team_limits: the dictionary returned for the teams
compute_team_limits(cfg, df, pid, current_bid, current_team) ==
  LET start == min_next_bid(cfg, pid, current_bid, current_team)
  IN [team \in TeamNames |->
        [remaining |-> Remaining(cfg, df, team),
         players_with_captain |-> Headcount(df, team),
         max_bid |-> max_bid(cfg, df, team),
         max_valid_bid |-> max_valid_bid(cfg, start, max_bid(cfg, df, team)),
         can_bid_now |-> can_bid_now(max_bid(cfg, df, team), start)]]

\* get_next_required_bid (0 stands for None)
get_next_required_bid(cfg, current_bid, base_price, has_leader) ==
  IF ~has_leader
  THEN IF current_bid >= base_price THEN current_bid ELSE base_price
  ELSE LET above == Above(get_bid_increments(cfg, current_bid), current_bid)
       IN IF Len(above) > 0 THEN above[1] ELSE 0

\* what the page shows for the lot
Page(cfg, df, lot) ==
  [op |-> "viewLot", ok |-> TRUE, changed |-> FALSE,
   pid |-> lot.player_id, team |-> lot.current_team, amount |-> lot.current_bid,
   ladder |-> get_bid_increments(cfg, lot.current_bid),
   next_bid |-> get_next_required_bid(cfg, lot.current_bid,
                                      PlayerBasePrice(lot.player_id), lot.current_team # ""),
   min_next_bid |-> min_next_bid(cfg, lot.player_id, lot.current_bid, lot.current_team),
   team_limits |-> compute_team_limits(cfg, df, lot.player_id, lot.current_bid,
                                       lot.current_team)]

\* live_bidding, GET for the player on the lot
ViewLot ==
  /\ current_auction.player_id # NoPlayer
  /\ last.op # "viewLot"
  /\ last' = Page(config, players, current_auction)
  /\ UNCHANGED <<config, players, current_auction, sequential_auction,
                 auction_version, req, sse_clients, stream>>

\* config.json files with positive increments in every tier
ViewConfigs ==
  Configs \cup
  { [budget |-> 12, base_price |-> 1, increments |-> <<2, 1, 3>>, max_players |-> 2],
    [budget |-> 8,  base_price |-> 2, increments |-> <<3, 2, 1>>, max_players |-> 3] }

\* rows of players.csv: unsold, sold to a team at a price, captain of a team
RosterRows ==
  {UnsoldRecord}
    \cup {SoldRecord(t, price) : t \in TeamNames, price \in ManualPrices}
    \cup {CaptainRecord(t) : t \in TeamNames}

\* lots in progress: a player, the shown price, the leading team or none
OpenLots ==
  {[StartedLot(pid, bid) EXCEPT !.current_team = t] :
     pid \in Players, bid \in Amounts, t \in TeamInputs}

\* The page is computed from the configuration, the table and the lot, which
\* are taken here from every combination of the values above.
InitView ==
  /\ config \in ViewConfigs
  /\ players \in [Players -> RosterRows]
  /\ current_auction \in OpenLots
  /\ sequential_auction = [active |-> FALSE, current_index |-> 0, player_sequence |-> <<>>]
  /\ auction_version = 0
  /\ last = Rejected("none")
  /\ req = [w \in Workers |-> IdleReq]
  /\ sse_clients = [s \in {} |-> <<>>]
  /\ stream = [s \in Subscribers |-> NoVersion]

NextView == ViewLot

SpecView == InitView /\ [][NextView]_vars

\* ---- live_bidding, POST with an action that is none of start_bidding,
\* update_bid and sold (there is no undo branch and the lot keeps no bid
\* history): no branch is taken and the page is rendered from the lot as it is
UnhandledAction(pid, action) ==
  /\ Below
  /\ last' = [Resp(action, pid, current_auction.current_team,
                   current_auction.current_bid) EXCEPT !.changed = FALSE]
  /\ UNCHANGED <<config, players, current_auction, sequential_auction,
                 auction_version, req, sse_clients, stream>>

NextUndo ==
  \/ Next
  \/ \E pid \in Players : UnhandledAction(pid, "undo")

SpecUndo == Init /\ [][NextUndo]_vars

\* ---- two requests that change the player table on two threads.  Each
\* handler reads the whole of players.csv into its own DataFrame
\* (load_players), changes one row of it and writes the whole file back
\* (save_players); nothing serialises the handlers.
\* set_captain, lines 952-958: load the table, refuse a second captain
CaptainLoad(w, pid, team) ==
  /\ req[w].pc = "idle"
  /\ auction_version + InFlight < MaxVersion
  /\ IF CaptainCount(players, team) > 0
     THEN /\ last' = Rejected("setCaptain")
          /\ UNCHANGED req
     ELSE /\ req' = [req EXCEPT ![w] = [IdleReq EXCEPT !.pc = "captain_save", !.pid = pid,
                                                       !.team = team, !.df = players]]
          /\ UNCHANGED last
  /\ UNCHANGED <<config, players, current_auction, sequential_auction,
                 auction_version, sse_clients, stream>>

\* set_captain, lines 965-973: the row is changed in the loaded table, the
\* table is written back, the state is broadcast
CaptainSave(w) ==
  /\ req[w].pc = "captain_save"
  /\ players' = [req[w].df EXCEPT ![req[w].pid] = CaptainRecord(req[w].team)]
  /\ auction_version' = Broadcast(auction_version, 1)
  /\ sse_clients' = Delivered(sse_clients, auction_version, auction_version')
  /\ last' = Resp("setCaptain", req[w].pid, req[w].team, 0)
  /\ req' = [req EXCEPT ![w] = IdleReq]
  /\ UNCHANGED <<config, current_auction, sequential_auction, stream>>

\* auction, action == "revert": the table was loaded at the top of the handler
RevertLoad(w, pid) ==
  /\ req[w].pc = "idle"
  /\ auction_version + InFlight < MaxVersion
  /\ req' = [req EXCEPT ![w] = [IdleReq EXCEPT !.pc = "revert_save", !.pid = pid,
                                                    !.df = players]]
  /\ UNCHANGED <<config, players, current_auction, sequential_auction,
                 auction_version, last, sse_clients, stream>>

\* auction, lines 508-518
RevertSave(w) ==
  /\ req[w].pc = "revert_save"
  /\ players' = [req[w].df EXCEPT ![req[w].pid] = UnsoldRecord]
  /\ auction_version' = Broadcast(auction_version, 1)
  /\ sse_clients' = Delivered(sse_clients, auction_version, auction_version')
  /\ last' = Resp("revertSale", req[w].pid, "", 0)
  /\ req' = [req EXCEPT ![w] = IdleReq]
  /\ UNCHANGED <<config, current_auction, sequential_auction, stream>>

NextStore ==
  \/ \E w \in Workers, pid \in Players, team \in TeamNames : CaptainLoad(w, pid, team)
  \/ \E w \in Workers : CaptainSave(w)
  \/ \E w \in Workers, pid \in Players : RevertLoad(w, pid)
  \/ \E w \in Workers : RevertSave(w)

SpecStore == Init /\ [][NextStore]_vars

\* ---- tournament settings.  get_bid_increments and compute_team_limits call
\* load_config() on every call, so they read the file as it is at that
\* moment; the handlers below rewrite the file and the module globals.
RuleForms == {<<1, <<1, 2, 3>>>>, <<2, <<1, 2, 3>>>>, <<1, <<2, 1, 3>>>>}
TeamForms == {<<12, 9>>, <<8, 2>>, <<12, 2>>}

\* update_auction_rules
UpdateAuctionRules(base_price, increments) ==
  /\ Below
  /\ config' = [config EXCEPT !.base_price = base_price, !.increments = increments]
  /\ last' = [Resp("updateAuctionRules", NoPlayer, "", base_price)
                EXCEPT !.changed = (config' # config)]
  /\ UNCHANGED <<players, current_auction, sequential_auction, auction_version,
                 req, sse_clients, stream>>

\* update_teams (the team names are left as they are)
UpdateTeams(budget, max_players) ==
  /\ Below
  /\ config' = [config EXCEPT !.budget = budget, !.max_players = max_players]
  /\ last' = [Resp("updateTeams", NoPlayer, "", budget)
                EXCEPT !.changed = (config' # config)]
  /\ UNCHANGED <<players, current_auction, sequential_auction, auction_version,
                 req, sse_clients, stream>>

NextConfig ==
  \/ \E pid \in Players : StartLot(pid)
  \/ \E pid \in Players, team \in TeamNames, amt \in Amounts : PlaceBid(pid, team, amt)
  \/ \E pid \in Players, form_team \in TeamInputs : MarkSold(pid, form_team)
  \/ \E form \in RuleForms : UpdateAuctionRules(form[1], form[2])
  \/ \E form \in TeamForms : UpdateTeams(form[1], form[2])

SpecConfig == Init /\ [][NextConfig]_vars

\* ---- a viewer that goes away.  stream[s] = Gone: the viewer closed the
\* connection and its generator has not written since; stream[s] = Closed:
\* the generator has ended.
Gone == -2
Closed == -3

\* the viewer closes the connection; the server has not noticed yet
Disconnect(s) ==
  /\ s \in DOMAIN sse_clients
  /\ stream[s] \notin {Gone, Closed}
  /\ stream' = [stream EXCEPT ![s] = Gone]
  /\ UNCHANGED <<config, players, current_auction, sequential_auction,
                 auction_version, last, req, sse_clients>>

\* variant: the generator ends without the finally clause
WriteFailsNoCleanup(s) ==
  /\ s \in DOMAIN sse_clients
  /\ stream[s] = Gone
  /\ stream' = [stream EXCEPT ![s] = Closed]
  /\ UNCHANGED <<config, players, current_auction, sequential_auction,
                 auction_version, last, req, sse_clients>>

\* gen, lines 1690-1694: the next write (first message, queued message or
\* keep-alive) fails, the generator is closed and finally: _unsubscribe_sse(q)
\* discards the queue with whatever it holds
WriteFails(s) ==
  /\ s \in DOMAIN sse_clients
  /\ stream[s] = Gone
  /\ sse_clients' = [t \in DOMAIN sse_clients \ {s} |-> sse_clients[t]]
  /\ stream' = [stream EXCEPT ![s] = Closed]
  /\ UNCHANGED <<config, players, current_auction, sequential_auction,
                 auction_version, last, req>>

\* reads by a viewer that is still there
ReceiveOpen(s) == stream[s] # Gone /\ Receive(s)
HeartbeatOpen(s) == stream[s] # Gone /\ Heartbeat(s)

NextHubGone ==
  \/ \E pid \in Players : StartLot(pid)
  \/ \E s \in Subscribers : Subscribe(s)
  \/ \E s \in Subscribers : InitMessage(s)
  \/ \E s \in Subscribers : ReceiveOpen(s)
  \/ \E s \in Subscribers : HeartbeatOpen(s)
  \/ \E s \in Subscribers : Disconnect(s)
  \/ \E s \in Subscribers : WriteFails(s)

\* q.get(timeout=heartbeat_sec) returns or times out within 15 seconds, so a
\* generator whose viewer is gone reaches a write, and the write fails.
SpecHubGone ==
  /\ Init /\ [][NextHubGone]_vars
  /\ \A s \in Subscribers : WF_vars(WriteFails(s))

\* ---- live sales against the squad limit: configurations whose max_players
\* is below the number of players, and tables in which no team is over it
SquadConfigs ==
  {[budget |-> 12, base_price |-> 1, increments |-> <<1, 2, 3>>, max_players |-> 1],
   [budget |-> 8, base_price |-> 2, increments |-> <<1, 2, 3>>, max_players |-> NumPlayers - 1]}

InitSquad ==
  /\ config \in SquadConfigs
  /\ players \in [Players -> {UnsoldRecord, CaptainRecord("A")}]
  /\ \A t \in TeamNames : Headcount(players, t) <= config.max_players
  /\ current_auction = WaitingLot
  /\ sequential_auction = [active |-> FALSE, current_index |-> 0, player_sequence |-> <<>>]
  /\ auction_version = 0
  /\ last = Rejected("none")
  /\ req = [w \in Workers |-> IdleReq]
  /\ sse_clients = [s \in {} |-> <<>>]
  /\ stream = [s \in Subscribers |-> NoVersion]

NextSquad ==
  \/ \E pid \in Players : StartLot(pid)
  \/ \E pid \in Players, team \in TeamNames, new_bid \in Amounts : PlaceBid(pid, team, new_bid)
  \/ \E pid \in Players, form_team \in TeamInputs : MarkSold(pid, form_team)
  \/ StartSequential(FALSE, <<>>)
  \/ NextPlayer

SpecSquad == InitSquad /\ [][NextSquad]_vars

\* ---- update_bid requests on two threads with broadcast_state step by
\* step and the payload in the message.  The lot has been started for player
\* 1 (one broadcast) and one viewer is connected.  Validation and the write
\* of the lot are taken as one step: accepted bids then only go up, so the
\* lot states are ordered by their bid.
InitPayload ==
  /\ config \in Configs
  /\ players = [p \in Players |-> UnsoldRecord]
  /\ current_auction = StartedLot(1, PlayerBasePrice(1))
  /\ sequential_auction = [active |-> FALSE, current_index |-> 0, player_sequence |-> <<>>]
  /\ auction_version = 1
  /\ last = Resp("startLot", 1, "", PlayerBasePrice(1))
  /\ req = [w \in Workers |-> IdleReq]
  /\ sse_clients = [s \in {"s1"} |-> <<>>]
  /\ stream = [s \in Subscribers |-> NoVersion]

\* live_bidding, update_bid, lines 584-632: an accepted bid is written to
\* the lot, then broadcast_state() starts
PayBegin(w, team, new_bid) ==
  /\ req[w].pc = "idle"
  /\ BidAccepted(config, players, current_auction, current_auction.player_id, team, new_bid)
  /\ current_auction' = AppliedBid(current_auction, team, new_bid)
  /\ req' = [req EXCEPT ![w] = [IdleReq EXCEPT !.pc = "bc_load", !.pid = current_auction.player_id,
                                               !.team = team, !.new_bid = new_bid]]
  /\ UNCHANGED <<config, players, sequential_auction, auction_version, last,
                 sse_clients, stream>>

\* line 127: "version": auction_version, evaluated before the payload
PayVersion(w) ==
  /\ req[w].pc = "bc_message"
  /\ req' = [req EXCEPT ![w].msg = auction_version, ![w].pc = "bc_payload"]
  /\ UNCHANGED <<config, players, current_auction, sequential_auction,
                 auction_version, last, sse_clients, stream>>

\* line 128 and build_live_payload, lines 81-89: the table is loaded from
\* the file, then the lot is read as it is at that moment
PayBuild(w) ==
  /\ req[w].pc = "bc_payload"
  /\ req' = [req EXCEPT ![w].bid_val = current_auction.current_bid,
                        ![w].team_val = current_auction.current_team,
                        ![w].pc = "bc_put"]
  /\ UNCHANGED <<config, players, current_auction, sequential_auction,
                 auction_version, last, sse_clients, stream>>

\* the state message of lines 125-129
StateMessage(r) == [version |-> r.msg, current_bid |-> r.bid_val, current_team |-> r.team_val]

\* lines 130-135: with _sse_lock, the message is put on every queue
PaySend(w) ==
  /\ req[w].pc = "bc_put"
  /\ sse_clients' = fan_out(sse_clients, StateMessage(req[w]))
  /\ last' = Resp("placeBid", req[w].pid, req[w].team, req[w].new_bid)
  /\ req' = [req EXCEPT ![w] = IdleReq]
  /\ UNCHANGED <<config, players, current_auction, sequential_auction,
                 auction_version, stream>>

NextPayload ==
  \/ \E w \in Workers, team \in TeamNames, new_bid \in Amounts : PayBegin(w, team, new_bid)
  \/ \E w \in Workers : BcLoad(w)
  \/ \E w \in Workers : BcStore(w)
  \/ \E w \in Workers : PayVersion(w)
  \/ \E w \in Workers : PayBuild(w)
  \/ \E w \in Workers : PaySend(w)

SpecPayload == InitPayload /\ [][NextPayload]_vars

\* ======================================================================
\* Properties
\* ======================================================================
IsSale == last.ok /\ last.op \in {"markSold", "manualSell"}

RECURSIVE StepN(_, _, _)
StepN(cfg, v, k) == IF k = 0 THEN v ELSE StepN(cfg, next_step(cfg, v), k - 1)

\* C1: for every configured team the sum of sold_price over the players
\* assigned to it never exceeds the team budget.
C1_SpentWithinBudget ==
  \A t \in TeamNames : Spent(players, t) <= config.budget

\* a team that bought two players and has spent at least half its budget
C1_Witness ==
  \E t \in TeamNames :
    /\ IsSale /\ last.team = t
    /\ SoldCount(players, t) >= 2
    /\ 2 * Spent(players, t) >= config.budget

\* C2: right after an accepted sale the buying team, if its squad is not
\* full, still has (max_players - headcount) x base_price left.
C2_SaleKeepsReserve ==
  (IsSale /\ last.team \in TeamNames) =>
    LET h == Headcount(players, last.team)
    IN h < config.max_players =>
         Remaining(config, players, last.team) >= (config.max_players - h) * config.base_price

\* C3: of two concurrent bids of the same amount for different teams that
\* looked at the same state of a started lot, at most one is applied.
C3_OneOfTwoConcurrentBids ==
  \A w1, w2 \in Workers :
    ( /\ w1 # w2
      /\ current_auction.player_id # NoPlayer
      /\ req[w1].pc = "done" /\ req[w2].pc = "done"
      /\ req[w1].new_bid = req[w2].new_bid
      /\ req[w1].team # req[w2].team
      /\ req[w1].seen = req[w2].seen )
    => ~(req[w1].ok /\ req[w2].ok)

\* C4 (as claimed): a bid accepted on the lot of a player equals the one
\* minimum next bid of that lot.
C4_OnlyMinNextBid ==
  [][(last'.op = "placeBid" /\ last'.ok /\ current_auction.status = "bidding"
        /\ current_auction.player_id = last'.pid) =>
       last'.amount = min_next_bid(config, last'.pid, current_auction.current_bid,
                                   current_auction.current_team)]_vars

\* C4 (amended): an accepted bid is one to nine ladder steps above the current
\* bid, or the current bid itself when there is no leading team and the
\* current bid is at least the player's base price.
C4_BidOnLadder ==
  [][(last'.op = "placeBid" /\ last'.ok) =>
       \/ \E k \in 1..(LadderLen - 1) :
            last'.amount = StepN(config, current_auction.current_bid, k)
       \/ /\ current_auction.current_team = ""
          /\ current_auction.current_bid >= PlayerBasePrice(last'.pid)
          /\ last'.amount = current_auction.current_bid]_vars

\* the lot of player pid was started at its base price (version 1) and the
\* one bid accepted since (version 2) is more than one ladder step above it
C4_Witness ==
  /\ last.op = "placeBid" /\ last.ok
  /\ auction_version = 2
  /\ current_auction.player_id = last.pid
  /\ last.amount > next_step(config, PlayerBasePrice(last.pid))

\* C5: an accepted bid never exceeds the bidding team's max_bid, and no
\* amount above a team's max_bid would be accepted.
C5_BidWithinMaxLegal ==
  /\ (last.op = "placeBid" /\ last.ok) =>
        last.amount <= max_bid(config, players, last.team)
  /\ \A team \in TeamNames :
        \A amt \in {a \in Amounts : a > max_bid(config, players, team)}, pid \in Players :
          ~BidAccepted(config, players, current_auction, pid, team, amt)

\* a bid accepted on a started lot exactly at the team's limit
C5_Witness ==
  /\ last.op = "placeBid" /\ last.ok
  /\ current_auction.player_id = last.pid
  /\ last.amount = max_bid(config, players, last.team)

\* C6: a bid is accepted only on a lot in bidding.
C6_BidOnlyWhenBidding ==
  [][(last'.op = "placeBid" /\ last'.ok) => current_auction.status = "bidding"]_vars

\* C7: startLot on a lot in bidding fails and leaves the lot unchanged.
C7_StartLotRefusedWhileBidding ==
  [][(current_auction.status = "bidding" /\ last'.op = "startLot") =>
       (~last'.ok /\ current_auction' = current_auction)]_vars

\* C8 (as claimed): a sale is accepted only on a lot in bidding.
C8_SoldOnlyWhenBidding ==
  [][(last'.op = "markSold" /\ last'.ok) => current_auction.status = "bidding"]_vars

\* C8 (amended): the lot status is not checked.  A sale is accepted only for
\* a configured team that is the lot's leading team, or the team of the
\* request when current_bid is 0, at a price within that team's max_bid; a
\* rejected sale changes no player record.
C8_SoldNeedsTeam ==
  [][/\ (last'.op = "markSold" /\ last'.ok) =>
          /\ last'.team \in TeamNames
          /\ current_auction.current_bid = 0 \/ last'.team = current_auction.current_team
          /\ last'.amount <= max_bid(config, players, last'.team)
     /\ (last'.op = "markSold" /\ ~last'.ok) => players' = players]_vars

\* the first committed mutation is a sale: the lot was never started
C8_Witness ==
  /\ last.op = "markSold" /\ last.ok
  /\ auction_version = 1

C10_SaleRecheckedAtCommit ==
  [][(current_auction.current_team \in TeamNames
        /\ max_bid(config, players, current_auction.current_team) < current_auction.current_bid
        /\ last'.op = "markSold") =>
       (last' = Rejected("markSold") /\ players' = players /\ current_auction' = current_auction)]_vars

\* a sale just rejected on a lot in bidding whose leading team can no longer
\* pay its bid
C10_Witness ==
  /\ last = Rejected("markSold")
  /\ current_auction.status = "bidding"
  /\ current_auction.current_team \in TeamNames
  /\ max_bid(config, players, current_auction.current_team) < current_auction.current_bid

C12_RejectionChangesNothing ==
  [][(~last'.ok /\ last'.op \in {"placeBid", "markSold", "startSequential", "manualSell"}) =>
       UNCHANGED <<current_auction, sequential_auction, players, auction_version>>]_vars

\* C13: every sold record has a positive price and a team, every captain
\* record has price 0.
C13_SoldHasPriceAndTeam ==
  \A p \in Players :
    /\ players[p].status = "sold" => (players[p].sold_price > 0 /\ players[p].team # "")
    /\ players[p].status = "captain" => players[p].sold_price = 0

\* C14: the version never decreases, and every committed operation that
\* changes the lot or a player record increases it.
C14_VersionCountsMutations ==
  [][/\ auction_version' >= auction_version
     /\ (last'.ok /\ last'.op \in {"startLot", "placeBid", "markSold", "advance",
                                    "startSequential", "resetLot", "revertSale",
                                    "resetPlayer", "setCaptain"}
           /\ (current_auction' # current_auction \/ players' # players))
         => auction_version' > auction_version]_vars

\* C19: resetLot and revertSale always succeed; afterwards the lot is waiting,
\* respectively the player's record is unsold with no team and price 0.
C19_ResetsAlwaysSucceed ==
  [][(last'.op \in {"resetLot", "revertSale", "resetPlayer"}) =>
       /\ last'.ok
       /\ last'.op = "resetLot" => current_auction'.status = "waiting"
       /\ last'.op # "resetLot" => players'[last'.pid] = UnsoldRecord]_vars

\* C20: when no player is unsold, startSequential is turned down and changes
\* nothing: the queue, the lot, the player records and the version stay as
\* they were (a queue that an earlier start left active stays active).
C20_NoUnsoldChangesNothing ==
  [][(last'.op = "startSequential" /\ Len(UnsoldIds(players)) = 0) =>
       /\ last' = Rejected("startSequential")
       /\ UNCHANGED <<sequential_auction, current_auction, players, auction_version>>]_vars

\* C20 as stated: after the refusal the queue is inactive and the lot unchanged
C20_NoUnsoldLeavesInactive ==
  [][(last'.op = "startSequential" /\ Len(UnsoldIds(players)) = 0) =>
       /\ ~last'.ok
       /\ ~sequential_auction'.active
       /\ current_auction' = current_auction]_vars

C20_Witness ==
  /\ last = Rejected("startSequential")
  /\ Len(UnsoldIds(players)) = 0
  /\ ~sequential_auction.active
  /\ current_auction = WaitingLot

\* the versions queued for a viewer go strictly up
Increasing(q) == \A i \in 1..(Len(q) - 1) : q[i] < q[i + 1]

\* C15: the state messages placed in one viewer's queue carry strictly
\* increasing versions, also when two requests broadcast at the same time.
C15_MailboxVersionsIncrease ==
  \A s \in DOMAIN sse_clients : Increasing(sse_clients[s])

\* C16: a broadcast does not stop at a full queue: the request completes, a
\* full queue is left as it is and every other registered queue with room
\* receives the message.
C16_FullMailboxDoesNotBlock ==
  [][auction_version' > auction_version =>
       /\ last'.ok
       /\ \A s \in DOMAIN sse_clients :
            LET sent == auction_version' - auction_version
                room == MaxMailbox - Len(sse_clients[s])
                kept == IF room < sent THEN room ELSE sent
            IN sse_clients'[s] =
                 sse_clients[s] \o [i \in 1..kept |-> auction_version + i]]_vars

C16_Witness ==
  /\ last.op = "startLot" /\ last.ok
  /\ auction_version = 3
  /\ DOMAIN sse_clients = Subscribers
  /\ sse_clients["s1"] = <<1, 2>>
  /\ sse_clients["s2"] = <<3>>

\* C17: after every broadcast each registered queue holds the newest version
\* (on a full queue the oldest message gives way to the new one).
C17_MailboxHoldsLatest ==
  [][auction_version' > auction_version =>
       \A s \in DOMAIN sse_clients' :
         /\ Len(sse_clients'[s]) > 0
         /\ sse_clients'[s][Len(sse_clients'[s])] = auction_version']_vars

\* C18: once the changes have stopped, a viewer that stays connected and
\* keeps reading ends up with the current version, also after a message
\* was dropped for it.
C18_ViewerCatchesUp ==
  \A s \in Subscribers :
    <>[](s \in DOMAIN sse_clients) => <>[](stream[s] = auction_version)

\* an advance (explicit, or after an accepted sale) that ran with the queue
\* active and took current_index past the end of the sequence
RoundEnds ==
  /\ last'.ok /\ last'.op \in {"advance", "markSold"}
  /\ sequential_auction.active
  /\ sequential_auction.current_index + 1 >= Len(sequential_auction.player_sequence)

\* C21: when an advance moves current_index past the end of the sequence and
\* some player is still unsold, the sequence becomes exactly the players that
\* are unsold at that moment, current_index becomes 0 and the lot is started
\* for the first of them.
C21_NewRoundOverUnsold ==
  [][(RoundEnds /\ Len(UnsoldIds(players')) > 0) =>
       /\ sequential_auction'.player_sequence = UnsoldIds(players')
       /\ sequential_auction'.current_index = 0
       /\ current_auction'.player_id = UnsoldIds(players')[1]
       /\ current_auction'.status = "bidding"]_vars

C21_Witness ==
  /\ last.op = "markSold" /\ last.ok
  /\ sequential_auction.active
  /\ sequential_auction.current_index = 0
  /\ sequential_auction.player_sequence = <<1>>
  /\ players[2].status = "sold"
  /\ current_auction.player_id = 1

\* C22: whenever the sequential scheduler starts a lot (startSequential, an
\* advance, the advance after an accepted sale), the lot opens at the queued
\* player's own base price, with no leading team and status bidding.
C22_QueuedLotAtOwnBasePrice ==
  [][(last'.ok /\ last'.op \in {"startSequential", "advance", "markSold"}
        /\ current_auction'.status = "bidding") =>
       current_auction' = StartedLot(current_auction'.player_id,
                                     PlayerBasePrice(current_auction'.player_id))]_vars

\* C23: an advance deactivates the queue only at the end of a round after
\* which no player is unsold; while a player is unsold at the end of a round
\* the queue stays active and the next round is not empty.
C23_QueueEndsWhenNoneUnsold ==
  [][(last'.op \in {"advance", "markSold"} /\ sequential_auction.active) =>
       /\ ~sequential_auction'.active =>
            (RoundEnds /\ Len(UnsoldIds(players')) = 0)
       /\ (RoundEnds /\ Len(UnsoldIds(players')) > 0) =>
            (sequential_auction'.active /\ Len(sequential_auction'.player_sequence) > 0)]_vars

C23_Witness ==
  /\ last.op = "advance" /\ last.ok
  /\ ~sequential_auction.active
  /\ sequential_auction.current_index > 0
  /\ Len(UnsoldIds(players)) = 0
  /\ current_auction.status = "waiting"

\* the increment of the tier that contains v
TierIncrement(cfg, v) ==
  IF v < 2 * cfg.base_price THEN cfg.increments[1]
  ELSE IF v < 4 * cfg.base_price THEN cfg.increments[2]
  ELSE cfg.increments[3]

\* C24: the ladder starts at the argument price, is strictly increasing, and
\* each step is the increment of the tier that contains the value stepped
\* from, so one ladder may cross tiers.
C24_LadderStepsByTier ==
  last.op = "viewLot" =>
    /\ last.ladder[1] = current_auction.current_bid
    /\ \A i \in 1..(Len(last.ladder) - 1) :
         /\ last.ladder[i + 1] > last.ladder[i]
         /\ last.ladder[i + 1] - last.ladder[i] = TierIncrement(config, last.ladder[i])

C24_Witness ==
  /\ last.op = "viewLot"
  /\ config.increments = <<1, 2, 3>> /\ config.base_price = 1
  /\ SubSeq(last.ladder, 1, 4) = <<1, 2, 4, 7>>

\* C25: when some team's sold+captain headcount is one below the squad size,
\* the next required bid on a lot that has a leader is current_bid plus the
\* tier-1 increment, whatever tier current_bid is in.
C25_LastSlotTierOneStep ==
  (/\ last.op = "viewLot"
   /\ current_auction.current_team # ""
   /\ \E t \in TeamNames : Headcount(players, t) = config.max_players - 1) =>
    /\ last.min_next_bid = current_auction.current_bid + config.increments[1]
    /\ last.next_bid = current_auction.current_bid + config.increments[1]

\* C26: a team's max_bid is 0 when its sold+captain headcount h has reached
\* the squad size, and otherwise max(0, (budget - spent) - max(0, squad size
\* - h - 1) * base price); it is never negative.
C26_MaxBidFormula ==
  last.op = "viewLot" =>
    \A t \in TeamNames :
      LET h == Cardinality({p \in Players : players[p].team = t
                                            /\ players[p].status \in {"sold", "captain"}})
          spent == SumPrices(players, t, NumPlayers)
          slots == IF config.max_players - h - 1 > 0 THEN config.max_players - h - 1 ELSE 0
          free == (config.budget - spent) - slots * config.base_price
      IN /\ last.team_limits[t].max_bid >= 0
         /\ last.team_limits[t].max_bid =
              IF h >= config.max_players THEN 0
              ELSE IF free > 0 THEN free ELSE 0

\* a team with room in its squad whose reserve exceeds what it has left
C26_Witness ==
  /\ last.op = "viewLot"
  /\ Headcount(players, "A") < config.max_players
  /\ Remaining(config, players, "A") >= 0
  /\ Remaining(config, players, "A") <
       (config.max_players - Headcount(players, "A") - 1) * config.base_price
  /\ last.team_limits["A"].max_bid = 0
  /\ last.team_limits["B"].max_bid > 0

\* C27: undo on a lot on which no bid was placed (the request follows the
\* start of the lot) leaves the lot at the player's base price with no
\* leading team, without an error.
C27_UndoResetsToBasePrice ==
  [][(/\ last'.op = "undo"
      /\ last.ok /\ last.op \in {"startLot", "startSequential", "advance"}
      /\ current_auction.status = "bidding"
      /\ last'.pid = current_auction.player_id) =>
       /\ last'.ok
       /\ current_auction' = StartedLot(current_auction.player_id,
                                        PlayerBasePrice(current_auction.player_id))]_vars

\* the first value of ladder l strictly above v
FirstAbove(l, v) ==
  l[CHOOSE i \in 1..Len(l) : l[i] > v /\ \A j \in 1..(i - 1) : l[j] <= v]

\* C28: a team is marked can_bid_now exactly when its max_bid is at least the
\* minimum next bid: the player's base price when there is no leading team
\* and current_bid is at most that base price, otherwise the first ladder
\* value strictly above current_bid.
C28_CanBidNowIffMaxCoversNext ==
  last.op = "viewLot" =>
    LET base == PlayerBasePrice(current_auction.player_id)
        minNextBid == IF current_auction.current_team = ""
                         /\ current_auction.current_bid <= base
                      THEN base
                      ELSE FirstAbove(last.ladder, current_auction.current_bid)
    IN \A t \in TeamNames :
         last.team_limits[t].can_bid_now <=> (last.team_limits[t].max_bid >= minNextBid)

\* a lot with a leader: one team can make the next bid, the other has money
\* left but not enough for it
C28_Witness ==
  /\ last.op = "viewLot"
  /\ current_auction.current_team # ""
  /\ last.team_limits["A"].can_bid_now
  /\ ~last.team_limits["B"].can_bid_now
  /\ last.team_limits["B"].max_bid > 0

\* C29: max_valid_bid is 0 exactly when the team cannot bid now; otherwise it
\* is reached from the minimum next bid by ladder steps, lies between the
\* minimum next bid and max_bid, and the ladder step after it exceeds max_bid.
C29_HighestReachableBid ==
  last.op = "viewLot" =>
    \A t \in TeamNames :
      LET lim == last.team_limits[t]
          top == lim.max_valid_bid
      IN /\ (top = 0) <=> ~lim.can_bid_now
         /\ lim.can_bid_now =>
              /\ \E k \in 0..config.budget : StepN(config, last.min_next_bid, k) = top
              /\ last.min_next_bid <= top
              /\ top <= lim.max_bid
              /\ top + TierIncrement(config, top) > lim.max_bid

\* the walk went past the minimum next bid and stopped below max_bid
C29_Witness ==
  /\ last.op = "viewLot"
  /\ last.team_limits["A"].can_bid_now
  /\ last.team_limits["A"].max_valid_bid > last.min_next_bid
  /\ last.team_limits["A"].max_valid_bid < last.team_limits["A"].max_bid
  /\ ~last.team_limits["B"].can_bid_now
  /\ last.team_limits["B"].max_valid_bid = 0

\* C30: persisting a change to one player's record leaves every other
\* player's record as it was, also when two such requests on different
\* players interleave.
C30_SaveTouchesOneRecord ==
  [][(last'.ok /\ last'.op \in {"setCaptain", "revertSale"} /\ players' # players) =>
       \A q \in Players \ {last'.pid} : players'[q] = players[q]]_vars

\* C31: a change of the settings made while a lot is in bidding does not
\* change which bids and which sale of that lot are accepted: the ladder and
\* the team limits of the lot stay those of the settings it was started under.
C31_SettingsNotAppliedMidBid ==
  [][(last'.op \in {"updateAuctionRules", "updateTeams"}
        /\ current_auction.status = "bidding") =>
       LET pid == current_auction.player_id
       IN /\ \A team \in TeamNames, amt \in Amounts :
               BidAccepted(config', players, current_auction, pid, team, amt)
                 <=> BidAccepted(config, players, current_auction, pid, team, amt)
          /\ SaleAccepted(config', players, current_auction)
               <=> SaleAccepted(config, players, current_auction)]_vars

\* C32: after a viewer disconnects, its queue is eventually removed from the
\* registered queues.
C32_GoneViewerIsUnsubscribed ==
  \A s \in Subscribers : (stream[s] = Gone) ~> (s \notin DOMAIN sse_clients)

\* a viewer left with messages queued and its queue has been discarded, while
\* the other viewer is still registered
C32_Witness ==
  /\ stream["s1"] = Closed
  /\ "s1" \notin DOMAIN sse_clients
  /\ "s2" \in DOMAIN sse_clients
  /\ auction_version > 0

\* C33: whenever the lot is waiting it has no player, current_bid is 0 and
\* the leading team is empty.
C33_WaitingLotIsBlank ==
  current_auction.status = "waiting" =>
    /\ current_auction.player_id = NoPlayer
    /\ current_auction.current_bid = 0
    /\ current_auction.current_team = ""

\* C34: whenever the sequential auction is active, player_sequence is not
\* empty and current_index is a position in it.
C34_ActiveQueueHasCurrentPlayer ==
  sequential_auction.active =>
    /\ Len(sequential_auction.player_sequence) > 0
    /\ 0 <= sequential_auction.current_index
    /\ sequential_auction.current_index < Len(sequential_auction.player_sequence)

\* C35: an accepted markSold writes only the record of the lot's player.
C35_SaleWritesTheLotsPlayer ==
  [][(last'.op = "markSold" /\ last'.ok) =>
       \A p \in Players :
         players'[p] # players[p] => p = current_auction.player_id]_vars

\* C36: markSold is accepted only for an unsold player: a record that is sold
\* or captain is not changed by startLot, placeBid, markSold or the queue.
C36_OnlyUnsoldPlayersAreSold ==
  [][(last'.op \in {"startLot", "placeBid", "markSold", "startSequential", "advance"}) =>
       \A p \in Players :
         players[p].status \in {"sold", "captain"} => players'[p] = players[p]]_vars

\* C37: starting with no team over the squad limit, live-bidding sales never
\* leave a team with more than max_players players that are sold or captain.
C37_SquadNeverOverLimit ==
  \A t \in TeamNames :
    Cardinality({p \in Players : players[p].team = t /\ players[p].status \in {"sold", "captain"}})
      <= config.max_players

\* the sale of a lot led by a team whose squad is full has been refused
C37_Witness ==
  /\ last.op = "markSold" /\ ~last.ok
  /\ current_auction.current_team \in TeamNames
  /\ Cardinality({p \in Players : players[p].team = current_auction.current_team
                                   /\ players[p].status \in {"sold", "captain"}})
       = config.max_players
  /\ \E p \in Players : players[p].status = "sold"

\* C38: for the player on the lot, every team that has some bid that would
\* be accepted is flagged can_bid_now, and get_next_required_bid gives the
\* min_next_bid of compute_team_limits.
C38_EligibilityAgreesWithValidation ==
  current_auction.player_id # NoPlayer =>
    LET lot == current_auction
        pid == lot.player_id
        limits == compute_team_limits(config, players, pid, lot.current_bid, lot.current_team)
    IN /\ \A team \in TeamNames :
            (\E new_bid \in Amounts : BidAccepted(config, players, lot, pid, team, new_bid))
              => limits[team].can_bid_now
       /\ get_next_required_bid(config, lot.current_bid, PlayerBasePrice(pid), lot.current_team # "")
            = min_next_bid(config, pid, lot.current_bid, lot.current_team)

\* C39: a viewer's queue is registered when its first message is produced,
\* and from then on every broadcast is appended to that queue as far as the
\* queue has room: no version between the first message and the queued ones
\* is missed.
C39_NoGapAfterInitialSnapshot ==
  [][\A s \in Subscribers :
       /\ stream'[s] # NoVersion => s \in DOMAIN sse_clients'
       /\ (stream[s] # NoVersion /\ auction_version' > auction_version) =>
            /\ s \in DOMAIN sse_clients
            /\ s \in DOMAIN sse_clients'
            /\ LET sent == auction_version' - auction_version
                   room == MaxMailbox - Len(sse_clients[s])
                   kept == IF room < sent THEN room ELSE sent
               IN sse_clients'[s] =
                    sse_clients[s] \o [i \in 1..kept |-> auction_version + i]]_vars

\* a viewer whose first message carried version 1 has versions 2 and 3 queued
C39_Witness ==
  /\ "s1" \in DOMAIN sse_clients
  /\ stream["s1"] = 1
  /\ sse_clients["s1"] = <<2, 3>>
  /\ last.op = "startLot"

\* the lot state read into m is older than the one read into n: bids on one
\* lot only go up, and the first bid may repeat the opening price
OlderLot(m, n) ==
  \/ m.current_bid < n.current_bid
  \/ m.current_bid = n.current_bid /\ m.current_team = "" /\ n.current_team # ""

\* C40: of two state messages, the one with the higher version never carries
\* an older lot state than the one with the lower version.
C40_VersionOrderIsStateOrder ==
  \A s \in DOMAIN sse_clients :
    \A i, j \in 1..Len(sse_clients[s]) :
      sse_clients[s][i].version < sse_clients[s][j].version
        => ~OlderLot(sse_clients[s][j], sse_clients[s][i])

====
